---- MODULE Spec2Model ----
(***************************************************************************)
(* Portfolio ledger, valuation, achievements and leaderboard of the        *)
(* stock-market-app backend (src/unnamed/part_000 is the most complete     *)
(* handler variant; part_001, part_002 and netlify/functions/api.js carry  *)
(* the same ledger code without achievements).                             *)
(*                                                                         *)
(* JavaScript numbers are modelled as exact values: cash, quantities and   *)
(* prices are integers, and a purchasePrice (a quotient) is an exact       *)
(* rational [n, d] in lowest terms.                                        *)
(***************************************************************************)
EXTENDS Integers, Sequences, FiniteSets, TLC

VARIABLES
    users,   \* the 'users' collection: _id -> document, or NoUser
    now,     \* Math.floor(Date.now() / 1000)
    ntrades, \* number of ledger writes so far: trades, and cash adjustments
             \* where a specification has them (bounds the exploration)
    last,    \* the last request handled: what it read, and its response
    procs    \* in-flight executeTrade requests (interleaved handlers)

vars == <<users, now, ntrades, last, procs>>

----------------------------------------------------------------------------
(* Bounds of the exploration *)

MaxTrades == 3
MaxShares == 15
MaxNow == 1
MaxClock == 2592001

(* Program constants *)

DefaultStartingCash == 100000
TeacherStartingCash == 0

(* Inputs *)

Symbols == {"AAPL", "XYZ"}
Quantities == {5, 10}
Prices == {150, 180}
TradeTypes == {"buy", "sell", "short"}
StartingCash == {1500, 2500, DefaultStartingCash}
QuotePrices == {0, 200}

UserIds == {"t1", "t2", "s1", "s2"}
AllUsersOrder == <<"t1", "t2", "s1", "s2">>
Procs == {1, 2}

NoUser == [role |-> "none"]
NoId == "null"

Payloads ==
    [type : TradeTypes, symbol : Symbols, quantity : Quantities, price : Prices]

\* The orders explored: every buy and sell by the student, one order of an
\* unknown type, and one buy and one sell by the teacher (cash 0) and by the
\* id that has no document.
SamplePayloads ==
    {p \in Payloads : p.symbol = "AAPL" /\ p.quantity = 5 /\ p.price = 150}

TradeRequests ==
    {r \in [userId : UserIds, payload : Payloads] :
        \/ r.userId = "s1" /\ r.payload.type \in {"buy", "sell"}
        \/ r.payload \in SamplePayloads}

----------------------------------------------------------------------------
(* Exact arithmetic on quotients *)

Abs(x) == IF x < 0 THEN -x ELSE x

RECURSIVE GCD(_, _)
GCD(a, b) == IF b = 0 THEN a ELSE GCD(b, a % b)

\* a quotient in lowest terms; a division by zero gives what the number
\* type gives: Infinity (1/0), -Infinity (-1/0) or NaN (0/0)
Rat(n, d) ==
    IF d = 0 THEN [n |-> IF n > 0 THEN 1 ELSE IF n < 0 THEN -1 ELSE 0, d |-> 0]
    ELSE LET g == GCD(Abs(n), Abs(d))
             s == IF d < 0 THEN -1 ELSE 1
         IN [n |-> (s * n) \div g, d |-> (s * d) \div g]

RatInt(i) == [n |-> i, d |-> 1]
RatAdd(a, b) == Rat(a.n * b.d + b.n * a.d, a.d * b.d)
RatScale(k, a) == Rat(k * a.n, a.d)
RatDivInt(a, k) == Rat(a.n, a.d * k)
RatLess(a, b) == a.n * b.d < b.n * a.d

----------------------------------------------------------------------------
(* Array helpers *)

includes(seq, x) == \E i \in DOMAIN seq : seq[i] = x

push(seq, x) == Append(seq, x)

\* Array.prototype.find by symbol: index of the first match, 0 when none
findStock(stocks, symbol) ==
    LET idx == {i \in DOMAIN stocks : stocks[i].symbol = symbol}
    IN IF idx = {} THEN 0 ELSE CHOOSE i \in idx : \A j \in idx : i <= j

\* (mutant) the filter's predicate inverted
filterOut_inverted(stocks, symbol) ==
    SelectSeq(stocks, LAMBDA s : s.symbol = symbol)

\* stocks.filter(s => s.symbol !== symbol)
filterOut(stocks, symbol) ==
    SelectSeq(stocks, LAMBDA s : s.symbol # symbol)

----------------------------------------------------------------------------
(* executeTrade: the computation between the read of the account and the   *)
(* write of cash, stocks and achievements                                  *)

ErrUserNotFound == "User not found."
ErrNotEnoughCash == "Not enough cash."
ErrNotEnoughShares == "Not enough shares to sell."
ErrInvalidType == "Invalid trade type."

tradeFail(user, msg) ==
    [error |-> msg, cash |-> user.cash, stocks |-> user.stocks,
     achievements |-> user.achievements]

\* (mutant) a trade awards no FIRST_TRADE
awardFirstTrade_never(achievements) == achievements

awardFirstTrade(achievements) ==
    IF includes(achievements, "FIRST_TRADE") THEN achievements
    ELSE push(achievements, "FIRST_TRADE")

\* (mutant) the fill price replaces the old basis
weightedAverage_newPrice(stock, quantity, price) == RatInt(price)

\* (mutant) the plain mean of the old basis and the fill price
weightedAverage_mean(stock, quantity, price) ==
    RatDivInt(RatAdd(stock.purchasePrice, RatInt(price)), 2)

weightedAverage(stock, quantity, price) ==
    RatDivInt(RatAdd(RatScale(stock.shares, stock.purchasePrice),
                     RatInt(quantity * price)),
              stock.shares + quantity)

newHolding(symbol, quantity, price, t) ==
    [symbol |-> symbol, shares |-> quantity, purchasePrice |-> RatInt(price),
     purchaseDate |-> t]

buyStocks(stocks, p, t) ==
    LET i == findStock(stocks, p.symbol)
    IN IF i # 0
       THEN [stocks EXCEPT ![i] =
                [symbol |-> stocks[i].symbol,
                 shares |-> stocks[i].shares + p.quantity,
                 purchasePrice |-> weightedAverage(stocks[i], p.quantity, p.price),
                 purchaseDate |-> stocks[i].purchaseDate]]
       ELSE push(stocks, newHolding(p.symbol, p.quantity, p.price, t))

\* (mutant) the check forgets the quantity
insufficientFunds_unitPrice(cash, p) == p.price > cash

\* (mutant) the check rejects a cost equal to the cash
insufficientFunds_orEqual(cash, p) == p.quantity * p.price >= cash

insufficientFunds(cash, p) == p.quantity * p.price > cash

tradeBuy(user, p, t) ==
    IF insufficientFunds(user.cash, p) THEN tradeFail(user, ErrNotEnoughCash)
    ELSE [error |-> "",
          cash |-> user.cash - p.quantity * p.price,
          stocks |-> buyStocks(user.stocks, p, t),
          achievements |-> awardFirstTrade(user.achievements)]

\* (mutant) the check forgets to compare the shares held
insufficientShares_presenceOnly(stocks, p) ==
    findStock(stocks, p.symbol) = 0

insufficientShares(stocks, p) ==
    LET i == findStock(stocks, p.symbol)
    IN i = 0 \/ stocks[i].shares < p.quantity

\* (mutant) a position sold down to zero is kept
sellStocks_keepsEmpty(stocks, p) ==
    LET i == findStock(stocks, p.symbol)
    IN [stocks EXCEPT ![i].shares = stocks[i].shares - p.quantity]

sellStocks(stocks, p) ==
    LET i == findStock(stocks, p.symbol)
        left == stocks[i].shares - p.quantity
    IN IF left = 0 THEN filterOut(stocks, p.symbol)
       ELSE [stocks EXCEPT ![i].shares = left]

\* (mutant) a sell at the averageCost counts as a profit
awardProfitMaker_orEqual(achievements, stock, price) ==
    IF ~RatLess(RatInt(price), stock.purchasePrice)
       /\ ~includes(achievements, "PROFIT_MAKER")
    THEN push(achievements, "PROFIT_MAKER")
    ELSE achievements

awardProfitMaker(achievements, stock, price) ==
    IF RatLess(stock.purchasePrice, RatInt(price))
       /\ ~includes(achievements, "PROFIT_MAKER")
    THEN push(achievements, "PROFIT_MAKER")
    ELSE achievements

tradeSell(user, p) ==
    IF insufficientShares(user.stocks, p) THEN tradeFail(user, ErrNotEnoughShares)
    ELSE LET stock == user.stocks[findStock(user.stocks, p.symbol)]
         IN [error |-> "",
             cash |-> user.cash + p.quantity * p.price,
             stocks |-> sellStocks(user.stocks, p),
             achievements |->
                awardFirstTrade(awardProfitMaker(user.achievements, stock, p.price))]

\* (mutant) every type other than buy is taken as a sell
tradeUpdate_sellByDefault(user, p, t) ==
    IF p.type = "buy" THEN tradeBuy(user, p, t) ELSE tradeSell(user, p)

tradeUpdate(user, p, t) ==
    IF p.type = "buy" THEN tradeBuy(user, p, t)
    ELSE IF p.type = "sell" THEN tradeSell(user, p)
    ELSE tradeFail(user, ErrInvalidType)

\* collection.updateOne({_id}, {$set: {cash, stocks, achievements}})
setPortfolio(coll, u, o) ==
    IF coll[u] = NoUser THEN coll
    ELSE [coll EXCEPT ![u] = [@ EXCEPT !.cash = o.cash, !.stocks = o.stocks,
                                       !.achievements = o.achievements]]

\* getPortfolio's projection {cash, stocks, achievements}
portfolioOf(doc) ==
    [cash |-> doc.cash, stocks |-> doc.stocks, achievements |-> doc.achievements]

NoPortfolio == [cash |-> 0, stocks |-> <<>>, achievements |-> <<>>]

\* the exploration keeps every holding within MaxShares
withinBounds(o) ==
    \A i \in DOMAIN o.stocks : o.stocks[i].shares <= MaxShares

----------------------------------------------------------------------------
(* Requests handled one after another *)

NoPayload == [type |-> "none", symbol |-> "none", quantity |-> 0, price |-> 0]

Request(op, u, p, before, result, out) ==
    [op |-> op, userId |-> u, payload |-> p, before |-> before, at |-> now,
     result |-> result, out |-> out]

executeTrade(u, p) ==
    LET user == users[u]
    IN /\ ntrades < MaxTrades
       /\ IF user = NoUser
          THEN /\ users' = users
               /\ ntrades' = ntrades
               /\ last' = Request("executeTrade", u, p, user, ErrUserNotFound,
                                  NoPortfolio)
          ELSE LET o == tradeUpdate(user, p, now)
               IN IF o.error # ""
                  THEN /\ users' = users
                       /\ ntrades' = ntrades
                       /\ last' = Request("executeTrade", u, p, user, o.error,
                                          NoPortfolio)
                  ELSE /\ withinBounds(o)
                       /\ users' = setPortfolio(users, u, o)
                       /\ ntrades' = ntrades + 1
                       /\ last' = Request("executeTrade", u, p, user, "ok",
                                          portfolioOf(users'[u]))
       /\ UNCHANGED <<now, procs>>

getPortfolio(u) ==
    /\ last' = IF users[u] = NoUser
               THEN Request("getPortfolio", u, NoPayload, users[u],
                            ErrUserNotFound, NoPortfolio)
               ELSE Request("getPortfolio", u, NoPayload, users[u], "ok",
                            portfolioOf(users[u]))
    /\ UNCHANGED <<users, now, ntrades, procs>>

Tick ==
    /\ now < MaxNow
    /\ now' = now + 1
    /\ UNCHANGED <<users, ntrades, last, procs>>

\* the clock moves on by a second or by thirty days between two requests
Elapse(d) ==
    /\ now + d <= MaxClock
    /\ now' = now + d
    /\ UNCHANGED <<users, ntrades, last, procs>>

----------------------------------------------------------------------------
(* Roster requests of a teacher on a student of theirs *)

ErrAccessDenied == "Access Denied"
ErrNotInRoster == "Student not found or not under your roster."
ErrUsernameTaken == "Username is already taken."
ErrNoChanges == "No changes were provided."

TeacherPassword == "mtlgap2025"

\* bcrypt.hash(password, 10), kept as the password it was made from
hash(password) == [bcrypt |-> password]

\* registerUser's insertOne
teacherDoc ==
    [username |-> "teacher1", hashedPassword |-> hash(TeacherPassword),
     role |-> "teacher", teacherId |-> NoId, cash |-> TeacherStartingCash,
     stocks |-> <<>>, achievements |-> <<>>]

\* registerUser's insertOne for another username
registeredTeacher(username) == [teacherDoc EXCEPT !.username = username]

\* addStudent's insertOne
studentDoc(username, startingCash, teacherId) ==
    [username |-> username, hashedPassword |-> hash("pw1"),
     role |-> "student", teacherId |-> teacherId,
     cash |-> IF startingCash = 0 THEN DefaultStartingCash ELSE startingCash,
     stocks |-> <<>>, achievements |-> <<>>]

Usernames == {"teacher1", "teacher2", "alice", "bob", "Teacher1", "ALICE"}

\* the 'i' flag of the username regular expression
lowerCase ==
    [n \in Usernames |->
        IF n = "Teacher1" THEN "teacher1" ELSE IF n = "ALICE" THEN "alice" ELSE n]

\* findOne({username: /^name$/i}): the first document whose username
\* matches, NoId when none does
findOneByUsername(coll, name) ==
    LET idx == {i \in DOMAIN AllUsersOrder :
                   /\ coll[AllUsersOrder[i]] # NoUser
                   /\ lowerCase[coll[AllUsersOrder[i]].username] = lowerCase[name]}
    IN IF idx = {} THEN NoId
       ELSE AllUsersOrder[CHOOSE i \in idx : \A j \in idx : i <= j]

\* (mutant) the filter forgets the teacher reference
inRoster_anyAccount(coll, studentId, teacherId) == coll[studentId] # NoUser

\* (mutant) the filter matches the students of every teacher
inRoster_anyStudent(coll, studentId, teacherId) ==
    coll[studentId] # NoUser /\ coll[studentId].role = "student"

\* the filter {_id: studentId, $or: [{teacherId}, {teacherId: ObjectId}]}
inRoster(coll, studentId, teacherId) ==
    coll[studentId] # NoUser /\ coll[studentId].teacherId = teacherId

Roster(op, actor, studentId, payload, result) ==
    [op |-> op, userId |-> actor.userId, role |-> actor.role, payload |-> payload,
     before |-> users[studentId], at |-> now, result |-> result,
     out |-> NoPortfolio, target |-> studentId]

updateStudentCash(actor, studentId, amount) ==
    /\ ntrades < MaxTrades
    /\ IF actor.role # "teacher"
       THEN /\ users' = users
            /\ ntrades' = ntrades
            /\ last' = Roster("updateStudentCash", actor, studentId, [amount |-> amount], ErrAccessDenied)
       ELSE IF ~inRoster(users, studentId, actor.userId)
       THEN /\ users' = users
            /\ ntrades' = ntrades
            /\ last' = Roster("updateStudentCash", actor, studentId, [amount |-> amount], ErrNotInRoster)
       ELSE /\ users' = [users EXCEPT ![studentId].cash = @ + amount]
            /\ ntrades' = ntrades + 1
            /\ last' = Roster("updateStudentCash", actor, studentId, [amount |-> amount], "ok")
    /\ UNCHANGED <<now, procs>>

\* newUsername and newPassword are "" when the request leaves them out
updateStudentCredentials(actor, studentId, newUsername, newPassword) ==
    LET existing == findOneByUsername(users, newUsername)
        result ==
            IF actor.role # "teacher" THEN ErrAccessDenied
            ELSE IF newUsername # "" /\ existing # NoId /\ existing # studentId
            THEN ErrUsernameTaken
            ELSE IF newUsername = "" /\ newPassword = "" THEN ErrNoChanges
            ELSE IF ~inRoster(users, studentId, actor.userId) THEN ErrNotInRoster
            ELSE "ok"
    IN /\ users' =
            IF result # "ok" THEN users
            ELSE [users EXCEPT
                    ![studentId].username =
                        IF newUsername # "" THEN newUsername ELSE @,
                    ![studentId].hashedPassword =
                        IF newPassword # "" THEN hash(newPassword) ELSE @]
       /\ last' = Roster("updateStudentCredentials", actor, studentId,
                         [newUsername |-> newUsername, newPassword |-> newPassword],
                         result)
       /\ UNCHANGED <<now, ntrades, procs>>

ErrCredentialsRequired == "Username and password are required."
ErrRegistrationPassword == "Invalid registration password."
ErrUsernameExists == "Username already exists."
ErrTeacherNotFound == "Teacher not found."

TeacherIds == {"t1", "t2"}
StudentIds == {"s1", "s2"}

\* the _id insertOne gives a new document: an id no document has, taken
\* from the ids whose tokens carry the role
newIds(coll, role) ==
    {u \in (IF role = "teacher" THEN TeacherIds ELSE StudentIds) : coll[u] = NoUser}

\* jwt.verify: a token was signed at login for a stored user; no request
\* deletes a teacher, so a teacher's token names a stored teacher, while a
\* student's token can outlive the student's document
validToken(actor) ==
    actor.role = "teacher" =>
        users[actor.userId] # NoUser /\ users[actor.userId].role = "teacher"

Signup(op, actor, payload, result, insertedId) ==
    [op |-> op, userId |-> actor.userId, role |-> actor.role, payload |-> payload,
     before |-> NoUser, at |-> now, result |-> result, out |-> NoPortfolio,
     target |-> insertedId]

Anonymous == [userId |-> NoId, role |-> "none"]

\* username and password are "" when the request leaves them out
registerUser(username, password) ==
    LET result ==
            IF username = "" \/ password = "" THEN ErrCredentialsRequired
            ELSE IF password # TeacherPassword THEN ErrRegistrationPassword
            ELSE IF findOneByUsername(users, username) # NoId THEN ErrUsernameExists
            ELSE "ok"
        payload == [username |-> username, password |-> password]
    IN /\ IF result # "ok"
          THEN /\ users' = users
               /\ last' = Signup("registerUser", Anonymous, payload, result, NoId)
          ELSE \E id \in newIds(users, "teacher") :
                  /\ users' = [users EXCEPT ![id] =
                                  [registeredTeacher(username) EXCEPT
                                      !.hashedPassword = hash(password)]]
                  /\ last' = Signup("registerUser", Anonymous, payload, "ok", id)
       /\ UNCHANGED <<now, ntrades, procs>>

\* startingCash is 0 when the request leaves it out
addStudent(actor, username, password, startingCash) ==
    LET result ==
            IF actor.role # "teacher" THEN ErrAccessDenied
            ELSE IF findOneByUsername(users, username) # NoId THEN ErrUsernameExists
            ELSE "ok"
        payload == [username |-> username, password |-> password,
                    startingCash |-> startingCash]
    IN /\ IF result # "ok"
          THEN /\ users' = users
               /\ last' = Signup("addStudent", actor, payload, result, NoId)
          ELSE \E id \in newIds(users, "student") :
                  /\ users' = [users EXCEPT ![id] =
                                  [studentDoc(username, startingCash, actor.userId)
                                      EXCEPT !.hashedPassword = hash(password)]]
                  /\ last' = Signup("addStudent", actor, payload, "ok", id)
       /\ UNCHANGED <<now, ntrades, procs>>

removeStudent(actor, studentId) ==
    LET result ==
            IF actor.role # "teacher" THEN ErrAccessDenied
            ELSE IF ~inRoster(users, studentId, actor.userId) THEN ErrNotInRoster
            ELSE "ok"
    IN /\ users' = IF result = "ok" THEN [users EXCEPT ![studentId] = NoUser]
                   ELSE users
       /\ last' = Roster("removeStudent", actor, studentId, NoPayload, result)
       /\ UNCHANGED <<now, ntrades, procs>>

updateTeacherCash(actor, amount) ==
    /\ ntrades < MaxTrades
    /\ IF actor.role # "teacher"
       THEN /\ users' = users
            /\ ntrades' = ntrades
            /\ last' = Roster("updateTeacherCash", actor, actor.userId,
                              [amount |-> amount], ErrAccessDenied)
       ELSE IF users[actor.userId] = NoUser \/ users[actor.userId].role # "teacher"
       THEN /\ users' = users
            /\ ntrades' = ntrades
            /\ last' = Roster("updateTeacherCash", actor, actor.userId,
                              [amount |-> amount], ErrTeacherNotFound)
       ELSE /\ users' = [users EXCEPT ![actor.userId].cash = @ + amount]
            /\ ntrades' = ntrades + 1
            /\ last' = Roster("updateTeacherCash", actor, actor.userId,
                              [amount |-> amount], "ok")
    /\ UNCHANGED <<now, procs>>

----------------------------------------------------------------------------
(* The FMP data proxy: what a fetch can answer *)

ThirtyDays == 2592000
MarketMasterValue == 125000
DiversifiedMin == 3

ValueSymbols == {"AAPL", "XYZ", "MSFT"}
AllSymbols == Symbols \cup ValueSymbols
NoQuote == -1
NoProfile == "none"
\* the industry FMP's profile of each symbol names, when it names one
IndustryOf ==
    [s \in AllSymbols |->
        IF s = "AAPL" THEN "Consumer Electronics"
        ELSE IF s = "MSFT" THEN "Software" ELSE "Energy"]

ErrFetchFailed == "Failed to fetch data from FMP"

\* quotes = {}
EmptyQuotes == [ok |-> TRUE, c |-> [s \in AllSymbols |-> NoQuote]]

\* fmpApiCall threw (no API key, response not ok, or an "Error Message")
FailedQuotes == [ok |-> FALSE, c |-> [s \in AllSymbols |-> NoQuote]]

\* the answers explored: every symbol asked for answered in full, but for
\* at most one of them
almostAll(symbols, f, full) ==
    /\ \A s \in AllSymbols \ symbols : f[s] = full[s]
    /\ Cardinality({s \in symbols : f[s] # full[s]}) <= 1

FullQuotes == [s \in AllSymbols |-> 200]

\* getQuotes(symbols): one batch call; the answer lists any of the symbols
getQuotes(symbols) ==
    {FailedQuotes, EmptyQuotes} \cup
    {[ok |-> TRUE, c |-> [s \in AllSymbols |-> IF s \in symbols THEN f[s] ELSE NoQuote]] :
        f \in {g \in [AllSymbols -> QuotePrices \cup {NoQuote}] :
                  almostAll(symbols, g, FullQuotes)}}

NoIndustries == [ok |-> TRUE, industry |-> [s \in AllSymbols |-> NoProfile]]

FailedIndustries == [ok |-> FALSE, industry |-> [s \in AllSymbols |-> NoProfile]]

\* getStockIndustries(symbols): one profile call per symbol under
\* Promise.all; a profile with no industry is filed under 'Other', a symbol
\* with no profile gets no entry
getStockIndustries(symbols) ==
    {FailedIndustries} \cup
    {[ok |-> TRUE,
      industry |-> [s \in AllSymbols |->
                      IF s \notin symbols THEN NoProfile
                      ELSE IF f[s] = "" THEN "Other" ELSE f[s]]] :
        f \in {g \in [AllSymbols -> {IndustryOf[x] : x \in AllSymbols} \cup {"", NoProfile}] :
                  almostAll(symbols, g, IndustryOf)}}

\* new Set(Object.values(industryData))
industrySet(resp) ==
    {resp.industry[s] : s \in {x \in AllSymbols : resp.industry[x] # NoProfile}}

----------------------------------------------------------------------------
(* Valuation *)

\* (mutant) a quote is used only when its price is truthy
priceOf_truthyPrice(stock, quotes) ==
    IF quotes.c[stock.symbol] # NoQuote /\ quotes.c[stock.symbol] # 0
    THEN RatInt(quotes.c[stock.symbol])
    ELSE stock.purchasePrice

\* quotes[stock.symbol] ? quotes[stock.symbol].c : stock.purchasePrice
priceOf(stock, quotes) ==
    IF quotes.c[stock.symbol] # NoQuote
    THEN RatInt(quotes.c[stock.symbol])
    ELSE stock.purchasePrice

\* stocks.forEach(stock => { acc += stock.shares * price }), from acc
RECURSIVE accumulate(_, _, _, _)
accumulate(acc, stocks, quotes, i) ==
    IF i > Len(stocks) THEN acc
    ELSE accumulate(RatAdd(acc, RatScale(stocks[i].shares, priceOf(stocks[i], quotes))),
                    stocks, quotes, i + 1)

\* getLeaderboards: stockValue from 0, then user.cash + stockValue
leaderboardValue(user, quotes) ==
    RatAdd(RatInt(user.cash), accumulate(RatInt(0), user.stocks, quotes, 1))

\* checkAndAwardAchievements: totalValue from cash, quotes fetched only
\* when the account holds a symbol
awardValue(user, quotes) ==
    IF Len(user.stocks) > 0
    THEN accumulate(RatInt(user.cash), user.stocks, quotes, 1)
    ELSE RatInt(user.cash)

----------------------------------------------------------------------------
(* getLeaderboards *)

\* find({}).toArray(): every document of the collection; the query names no
\* sort, so the order of the array is whatever the store returns
find(coll) ==
    LET ids == {u \in UserIds : coll[u] # NoUser}
    IN {f \in [1..Cardinality(ids) -> ids] :
           \A i, j \in DOMAIN f : i # j => f[i] # f[j]}

symbolsOf(stocks) == {stocks[i].symbol : i \in DOMAIN stocks}

allSymbolsOf(coll, ids) ==
    UNION {symbolsOf(coll[ids[k]].stocks) : k \in DOMAIN ids}

\* Array.prototype.sort((a, b) => b.totalValue - a.totalValue): stable
RECURSIVE insertRanked_ascending(_, _)
\* (mutant) the comparator taken the other way round
insertRanked_ascending(sorted, e) ==
    IF sorted = <<>> THEN <<e>>
    ELSE IF RatLess(e.totalValue, sorted[Len(sorted)].totalValue)
         THEN Append(insertRanked_ascending(SubSeq(sorted, 1, Len(sorted) - 1), e),
                     sorted[Len(sorted)])
         ELSE Append(sorted, e)

RECURSIVE insertRanked(_, _)
insertRanked(sorted, e) ==
    IF sorted = <<>> THEN <<e>>
    ELSE IF RatLess(sorted[Len(sorted)].totalValue, e.totalValue)
         THEN Append(insertRanked(SubSeq(sorted, 1, Len(sorted) - 1), e),
                     sorted[Len(sorted)])
         ELSE Append(sorted, e)

RECURSIVE sortRanked(_, _)
sortRanked(entries, n) ==
    IF n = 0 THEN <<>>
    ELSE insertRanked(sortRanked(entries, n - 1), entries[n])

rankedUsers(coll, ids, quotes) ==
    sortRanked([k \in DOMAIN ids |->
                   [id |-> ids[k], teacherId |-> coll[ids[k]].teacherId,
                    totalValue |-> leaderboardValue(coll[ids[k]], quotes)]],
               Len(ids))

\* (mutant) the teacher's class list leaves the teacher out
classLeaderboard_studentsOnly(coll, ranked, currentUser) ==
    IF currentUser.role = "teacher"
    THEN SelectSeq(ranked, LAMBDA e : e.teacherId = currentUser.userId)
    ELSE IF coll[currentUser.userId] # NoUser
            /\ coll[currentUser.userId].teacherId # NoId
         THEN SelectSeq(ranked,
                  LAMBDA e : e.teacherId = coll[currentUser.userId].teacherId
                             \/ e.id = coll[currentUser.userId].teacherId)
         ELSE SelectSeq(ranked, LAMBDA e : e.id = currentUser.userId)

\* (mutant) a student's class list is filtered on the student's own id
classLeaderboard_ownId(coll, ranked, currentUser) ==
    IF currentUser.role = "teacher"
    THEN SelectSeq(ranked, LAMBDA e : e.id = currentUser.userId
                                        \/ e.teacherId = currentUser.userId)
    ELSE SelectSeq(ranked, LAMBDA e : e.id = currentUser.userId
                                        \/ e.teacherId = currentUser.userId)

classLeaderboard(coll, ranked, currentUser) ==
    IF currentUser.role = "teacher"
    THEN SelectSeq(ranked, LAMBDA e : e.id = currentUser.userId
                                        \/ e.teacherId = currentUser.userId)
    ELSE IF coll[currentUser.userId] # NoUser
            /\ coll[currentUser.userId].teacherId # NoId
         THEN SelectSeq(ranked,
                  LAMBDA e : e.teacherId = coll[currentUser.userId].teacherId
                             \/ e.id = coll[currentUser.userId].teacherId)
         ELSE SelectSeq(ranked, LAMBDA e : e.id = currentUser.userId)

NoBoards == [global |-> <<>>, class |-> <<>>]

Query(op, u, quotes, industries, result, out) ==
    [op |-> op, userId |-> u, payload |-> NoPayload, before |-> users[u],
     at |-> now, result |-> result, out |-> out, quotes |-> quotes,
     industries |-> industries]

getLeaderboards(currentUser) ==
    /\ \E ids \in find(users) :
         LET symbols == allSymbolsOf(users, ids)
         IN \E quotes \in (IF symbols = {} THEN {EmptyQuotes} ELSE getQuotes(symbols)) :
            last' = IF quotes.ok
                    THEN LET ranked == rankedUsers(users, ids, quotes)
                         IN Query("getLeaderboards", currentUser.userId, quotes,
                                  NoIndustries, "ok",
                                  [global |-> ranked,
                                   class |-> classLeaderboard(users, ranked, currentUser)])
                    ELSE Query("getLeaderboards", currentUser.userId, quotes,
                               NoIndustries, ErrFetchFailed, NoBoards)
    /\ UNCHANGED <<users, now, ntrades, procs>>

----------------------------------------------------------------------------
(* checkAndAwardAchievements *)

\* (mutant) a badge earned starts the list anew
award_fresh(achievements, badge, earned) ==
    IF ~includes(achievements, badge) /\ earned
    THEN <<badge>>
    ELSE achievements

\* (mutant) a badge earned is pushed whether or not it is there already
award_again(achievements, badge, earned) ==
    IF earned THEN push(achievements, badge) ELSE achievements

award(achievements, badge, earned) ==
    IF ~includes(achievements, badge) /\ earned
    THEN push(achievements, badge)
    ELSE achievements

\* (mutant) a holding of exactly thirty days counts
patient_orEqual(stocks, t) ==
    \E i \in DOMAIN stocks : stocks[i].purchaseDate <= t - ThirtyDays

patient(stocks, t) ==
    \E i \in DOMAIN stocks : stocks[i].purchaseDate < t - ThirtyDays

\* (mutant) MARKET_MASTER asks for a value strictly above the threshold
awarded_strictlyAbove(user, t, quotes, industries) ==
    LET a1 == award(user.achievements, "PATIENT_INVESTOR", patient(user.stocks, t))
        a2 == award(a1, "MARKET_MASTER",
                    RatLess(RatInt(MarketMasterValue), awardValue(user, quotes)))
    IN award(a2, "DIVERSIFIED_INVESTOR",
             Len(user.stocks) >= DiversifiedMin
                /\ Cardinality(industrySet(industries)) >= DiversifiedMin)

\* the badges after the rules, given the answers of the two fetches
awarded(user, t, quotes, industries) ==
    LET a1 == award(user.achievements, "PATIENT_INVESTOR", patient(user.stocks, t))
        a2 == award(a1, "MARKET_MASTER",
                    ~RatLess(awardValue(user, quotes), RatInt(MarketMasterValue)))
    IN award(a2, "DIVERSIFIED_INVESTOR",
             Len(user.stocks) >= DiversifiedMin
                /\ Cardinality(industrySet(industries)) >= DiversifiedMin)

\* whether the handler asks for the industries: after the first two rules
asksIndustries(user, t, quotes) ==
    /\ ~includes(user.achievements, "DIVERSIFIED_INVESTOR")
    /\ Len(user.stocks) >= DiversifiedMin

\* (mutant) the update also empties the holdings
setAchievements_clearsStocks(coll, u, achievements) ==
    IF coll[u] = NoUser THEN coll
    ELSE [coll EXCEPT ![u].achievements = achievements, ![u].stocks = <<>>]

setAchievements(coll, u, achievements) ==
    IF coll[u] = NoUser THEN coll
    ELSE [coll EXCEPT ![u].achievements = achievements]

NoAward == [newAchievements |-> <<>>, totalValue |-> RatInt(0)]

checkAndAwardAchievements(u) ==
    LET user == users[u]
    IN IF user = NoUser
       THEN /\ last' = Query("checkAndAwardAchievements", u, EmptyQuotes,
                             NoIndustries, "ok", NoAward)
            /\ UNCHANGED <<users, now, ntrades, procs>>
       ELSE /\ \E quotes \in (IF Len(user.stocks) > 0
                               THEN getQuotes(symbolsOf(user.stocks))
                               ELSE {EmptyQuotes}) :
               \E industries \in (IF quotes.ok /\ asksIndustries(user, now, quotes)
                                   THEN getStockIndustries(symbolsOf(user.stocks))
                                   ELSE {NoIndustries}) :
                  IF quotes.ok /\ industries.ok
                  THEN LET a == awarded(user, now, quotes, industries)
                       IN /\ users' = setAchievements(users, u, a)
                          /\ last' = Query("checkAndAwardAchievements", u, quotes,
                                           industries, "ok",
                                           [newAchievements |-> a,
                                            totalValue |-> awardValue(user, quotes)])
                  ELSE /\ users' = users
                       /\ last' = Query("checkAndAwardAchievements", u, quotes,
                                        industries, ErrFetchFailed, NoAward)
            /\ UNCHANGED <<now, ntrades, procs>>

----------------------------------------------------------------------------
(* Initial state: a teacher registered through registerUser and a student  *)
(* the teacher added through addStudent; "s2" is an id with no document.   *)

IdleProc == [pc |-> "idle", userId |-> NoId, payload |-> NoPayload,
             user |-> NoUser, result |-> ""]

NoRequest == [op |-> "none", userId |-> NoId, payload |-> NoPayload,
              before |-> NoUser, at |-> 0, result |-> "", out |-> NoPortfolio]

InitWith(cashes) ==
    /\ \E c \in cashes :
          users = [u \in UserIds |->
                     IF u = "t1" THEN teacherDoc
                     ELSE IF u = "s1" THEN studentDoc("alice", c, "t1")
                     ELSE NoUser]
    /\ now = 0
    /\ ntrades = 0
    /\ last = NoRequest
    /\ procs = [p \in Procs |-> IdleProc]

Init == InitWith(StartingCash)

Next ==
    \/ \E r \in TradeRequests : executeTrade(r.userId, r.payload)
    \/ \E u \in UserIds : getPortfolio(u)
    \/ Tick

Spec == Init /\ [][Next]_vars

----------------------------------------------------------------------------
(* The valuation requests, over an account that buys and sells 10 shares   *)
(* at 150 of up to three symbols                                           *)

ValueStartingCash == {2500, DefaultStartingCash}

ValuePayloads ==
    [type : {"buy", "sell"}, symbol : ValueSymbols, quantity : {10}, price : {150}]

Actors ==
    {[userId |-> "t1", role |-> "teacher"], [userId |-> "s1", role |-> "student"],
     [userId |-> "s2", role |-> "student"]}

InitValue == InitWith(ValueStartingCash)

NextValue ==
    \/ \E p \in ValuePayloads : executeTrade("s1", p)
    \/ \E cu \in Actors : getLeaderboards(cu)
    \/ \E u \in UserIds : checkAndAwardAchievements(u)

SpecValue == InitValue /\ [][NextValue]_vars

----------------------------------------------------------------------------
(* The rules of checkAndAwardAchievements on value and industries: trades  *)
(* of up to three symbols from a starting cash next to the MARKET_MASTER   *)
(* threshold                                                               *)

AwardStartingCash == {124999, 125000}

InitAward == InitWith(AwardStartingCash)

NextAward ==
    \/ \E p \in ValuePayloads : executeTrade("s1", p)
    \/ \E u \in UserIds : checkAndAwardAchievements(u)

SpecAward == InitAward /\ [][NextAward]_vars

----------------------------------------------------------------------------
(* The rule of checkAndAwardAchievements on the age of a holding: trades   *)
(* of two symbols, and a clock that moves by thirty days, or thirty days   *)
(* and a second, between requests                                          *)

Elapsed == {ThirtyDays, ThirtyDays + 1}

PatientPayloads ==
    [type : {"buy", "sell"}, symbol : Symbols, quantity : {10}, price : {150}]

InitPatient == InitWith({DefaultStartingCash})

NextPatient ==
    \/ \E p \in PatientPayloads : executeTrade("s1", p)
    \/ \E u \in UserIds : checkAndAwardAchievements(u)
    \/ \E d \in Elapsed : Elapse(d)

SpecPatient == InitPatient /\ [][NextPatient]_vars

----------------------------------------------------------------------------
(* Every request that reads or writes an account, one after another: the   *)
(* student trades one symbol at two prices, the teacher adjusts the        *)
(* student's cash across the MARKET_MASTER threshold and changes the       *)
(* student's credentials                                                   *)

RequestsStartingCash == {124999}

RequestsPayloads ==
    [type : {"buy", "sell"}, symbol : {"AAPL"}, quantity : {10}, price : Prices]

CashAmounts == {-1, 1}

\* <<newUsername, newPassword>>
CredentialChanges == {<<"", "">>, <<"Teacher1", "">>, <<"ALICE", "pw2">>}

\* the teacher on every id, and the student on their own id
RosterRequests ==
    {r \in [actor : Actors, studentId : UserIds] :
        r.actor.userId = "t1" \/ (r.actor.userId = "s1" /\ r.studentId = "s1")}

InitRequests == InitWith(RequestsStartingCash)

NextRequests ==
    \/ \E p \in RequestsPayloads : executeTrade("s1", p)
    \/ \E u \in UserIds : checkAndAwardAchievements(u)
    \/ \E r \in RosterRequests, amount \in CashAmounts :
          updateStudentCash(r.actor, r.studentId, amount)
    \/ \E r \in RosterRequests, c \in CredentialChanges :
          updateStudentCredentials(r.actor, r.studentId, c[1], c[2])
    \/ \E u \in UserIds : getPortfolio(u)
    \/ \E cu \in Actors : getLeaderboards(cu)

SpecRequests == InitRequests /\ [][NextRequests]_vars

----------------------------------------------------------------------------
(* The leaderboard over a class of two students, who start with the same   *)
(* cash or not and trade one symbol                                        *)

BoardStartingCash == {1500, 3000}

BoardPayloads ==
    [type : {"buy", "sell"}, symbol : {"AAPL"}, quantity : {10}, price : {150}]

Students == {"s1", "s2"}

InitBoard ==
    /\ \E c1, c2 \in BoardStartingCash :
          users = [u \in UserIds |->
                     IF u = "t1" THEN teacherDoc
                     ELSE IF u = "s1" THEN studentDoc("alice", c1, "t1")
                     ELSE IF u = "s2" THEN studentDoc("bob", c2, "t1")
                     ELSE NoUser]
    /\ now = 0
    /\ ntrades = 0
    /\ last = NoRequest
    /\ procs = [p \in Procs |-> IdleProc]

NextBoard ==
    \/ \E u \in Students, p \in BoardPayloads : executeTrade(u, p)
    \/ \E cu \in Actors : getLeaderboards(cu)

SpecBoard == InitBoard /\ [][NextBoard]_vars

----------------------------------------------------------------------------
(* The reading requests next to the trades of two students: one student    *)
(* starts at the MARKET_MASTER threshold, so that an evaluation awards     *)

FrameStartingCash == {1500, 125000}

InitFrame ==
    /\ \E c1 \in FrameStartingCash :
          users = [u \in UserIds |->
                     IF u = "t1" THEN teacherDoc
                     ELSE IF u = "s1" THEN studentDoc("alice", c1, "t1")
                     ELSE IF u = "s2" THEN studentDoc("bob", 1500, "t1")
                     ELSE NoUser]
    /\ now = 0
    /\ ntrades = 0
    /\ last = NoRequest
    /\ procs = [p \in Procs |-> IdleProc]

NextFrame ==
    \/ \E u \in Students, p \in BoardPayloads : executeTrade(u, p)
    \/ \E cu \in Actors : getLeaderboards(cu)
    \/ \E u \in UserIds : getPortfolio(u)
    \/ \E u \in UserIds : checkAndAwardAchievements(u)

SpecFrame == InitFrame /\ [][NextFrame]_vars

----------------------------------------------------------------------------
(* The class leaderboard over two teachers and two students: one student  *)
(* of the first teacher, who trades, and one who is a student of the      *)
(* first teacher, of the second, or has no teacher reference (a student   *)
(* document inserted by the earlier handler's registerUser, part_001)     *)

ClassStartingCash == {1500, 3000}

ClassActors == Actors \cup {[userId |-> "t2", role |-> "teacher"]}

TeacherRefs == {"t1", "t2", NoId}

InitClass ==
    /\ \E c1, c2 \in ClassStartingCash : \E ref \in TeacherRefs :
          users = [u \in UserIds |->
                     IF u = "t1" THEN teacherDoc
                     ELSE IF u = "t2" THEN registeredTeacher("teacher2")
                     ELSE IF u = "s1" THEN studentDoc("alice", c1, "t1")
                     ELSE studentDoc("bob", c2, ref)]
    /\ now = 0
    /\ ntrades = 0
    /\ last = NoRequest
    /\ procs = [p \in Procs |-> IdleProc]

NextClass ==
    \/ \E p \in BoardPayloads : executeTrade("s1", p)
    \/ \E cu \in ClassActors : getLeaderboards(cu)

SpecClass == InitClass /\ [][NextClass]_vars

----------------------------------------------------------------------------
(* The roster of two teachers: the second one registers, students are      *)
(* added, removed, renamed and given cash                                  *)

RosterUsernames == {"teacher2", "Teacher1"}
RosterPasswords == {TeacherPassword, "guess"}
RosterStudentNames == {"bob", "ALICE"}
RosterAmounts == {1000}
RosterCredentials == {<<"", "">>, <<"bob", "pw2">>}
RosterActors == {a \in ClassActors : a.userId # "s2"}

InitRoster == InitWith({1000})

NextRoster ==
    \/ \E n \in RosterUsernames, pw \in RosterPasswords : registerUser(n, pw)
    \/ \E a \in RosterActors, n \in RosterStudentNames :
          validToken(a) /\ addStudent(a, n, "pw1", 0)
    \/ \E a \in RosterActors, id \in UserIds :
          validToken(a) /\ removeStudent(a, id)
    \/ \E a \in RosterActors, id \in UserIds, amount \in RosterAmounts :
          validToken(a) /\ updateStudentCash(a, id, amount)
    \/ \E a \in RosterActors, id \in UserIds, c \in RosterCredentials :
          validToken(a) /\ updateStudentCredentials(a, id, c[1], c[2])

SpecRoster == InitRoster /\ [][NextRoster]_vars

----------------------------------------------------------------------------
(* Every request that writes a cash balance: a teacher registers, students *)
(* are added with the cash the request names, cash is given and taken, and *)
(* students trade                                                          *)

CashStartingCash == {0, 500, -500}
CashChanges == {-1000, 1000}
CashPayloads ==
    [type : {"buy", "sell"}, symbol : {"AAPL"}, quantity : {5}, price : {150}]

InitCash == InitWith({1000})

NextCash ==
    \/ registerUser("teacher2", TeacherPassword)
    \/ \E a \in ClassActors, c \in CashStartingCash :
          validToken(a) /\ addStudent(a, "bob", "pw1", c)
    \/ \E a \in ClassActors, id \in UserIds, amount \in CashChanges :
          validToken(a) /\ updateStudentCash(a, id, amount)
    \/ \E a \in ClassActors, amount \in CashChanges :
          validToken(a) /\ updateTeacherCash(a, amount)
    \/ \E u \in StudentIds, p \in CashPayloads : executeTrade(u, p)

SpecCash == InitCash /\ [][NextCash]_vars

----------------------------------------------------------------------------
(* Orders of any quantity and price, zero and negative ones included       *)

OrderQuantities == {-5, 0, 5}
OrderPrices == {-150, 0, 150}
OrderPayloads ==
    [type : {"buy", "sell"}, symbol : {"AAPL"}, quantity : OrderQuantities,
     price : OrderPrices]

InitOrders == InitWith({1000})

NextOrders == \E p \in OrderPayloads : executeTrade("s1", p)

SpecOrders == InitOrders /\ [][NextOrders]_vars

----------------------------------------------------------------------------
(* Two executeTrade requests in flight on the same account: each handler   *)
(* awaits its findOne, then its updateOne, then getPortfolio's findOne,    *)
(* and the handlers interleave at every await.                             *)

ConcStartingCash == {2500, DefaultStartingCash}

ConcPayloads == {p \in Payloads : p.type \in {"buy", "sell"}}

FirstBuy == [type |-> "buy", symbol |-> "AAPL", quantity |-> 10, price |-> 150]

\* the collection after the student's first buy, 10 AAPL @ 150
InitConc ==
    /\ \E c \in ConcStartingCash :
          users = setPortfolio(
                     [u \in UserIds |->
                        IF u = "t1" THEN teacherDoc
                        ELSE IF u = "s1" THEN studentDoc("alice", c, "t1")
                        ELSE NoUser],
                     "s1", tradeUpdate(studentDoc("alice", c, "t1"), FirstBuy, 0))
    /\ now = 0
    /\ ntrades = 1
    /\ last = NoRequest
    /\ procs = [p \in Procs |-> IdleProc]

\* const user = await collection.findOne({_id})
tradeRead(p, u, payload) ==
    /\ procs[p].pc = "idle"
    /\ procs' = [procs EXCEPT ![p] =
                    IF users[u] = NoUser
                    THEN [pc |-> "done", userId |-> u, payload |-> payload,
                          user |-> NoUser, result |-> ErrUserNotFound]
                    ELSE [pc |-> "read", userId |-> u, payload |-> payload,
                          user |-> users[u], result |-> ""]]
    /\ UNCHANGED <<users, now, ntrades, last>>

\* the computation on the document read, then await collection.updateOne
tradeWrite(p) ==
    /\ procs[p].pc = "read"
    /\ LET o == tradeUpdate(procs[p].user, procs[p].payload, now)
       IN IF o.error # ""
          THEN /\ procs' = [procs EXCEPT ![p].pc = "done", ![p].result = o.error]
               /\ users' = users
          ELSE /\ procs' = [procs EXCEPT ![p].pc = "written"]
               /\ users' = setPortfolio(users, procs[p].userId, o)
    /\ UNCHANGED <<now, ntrades, last>>

\* const newPortfolio = await getPortfolio(collection, userId)
tradeReply(p) ==
    /\ procs[p].pc = "written"
    /\ procs' = [procs EXCEPT ![p].pc = "done",
                              ![p].result =
                                 IF users[procs[p].userId] = NoUser
                                 THEN ErrUserNotFound ELSE "ok"]
    /\ UNCHANGED <<users, now, ntrades, last>>

NextConc ==
    \/ \E p \in Procs, payload \in ConcPayloads : tradeRead(p, "s1", payload)
    \/ \E p \in Procs : tradeWrite(p)
    \/ \E p \in Procs : tradeReply(p)

SpecConc == InitConc /\ [][NextConc]_vars

----------------------------------------------------------------------------
(* An executeTrade in flight on an account while a teacher's cash          *)
(* adjustment, a single updateOne with $inc, is applied to the same        *)
(* account                                                                 *)

ConcCashStart == 2500
ConcCashChanges == {-1000, 1000}
ConcCashPayloads ==
    [type : {"buy"}, symbol : {"AAPL"}, quantity : {5, 10}, price : {150}]
ConcCashAccounts == {"t1", "s1"}

\* the teacher, holding ConcCashStart after an updateTeacherCash, and a
\* student added with ConcCashStart
InitConcCash ==
    /\ users = [u \in UserIds |->
                  IF u = "t1" THEN [teacherDoc EXCEPT !.cash = ConcCashStart]
                  ELSE IF u = "s1" THEN studentDoc("alice", ConcCashStart, "t1")
                  ELSE NoUser]
    /\ now = 0
    /\ ntrades = 0
    /\ last = NoRequest
    /\ procs = [p \in Procs |-> IdleProc]

NextConcCash ==
    \/ \E u \in ConcCashAccounts, payload \in ConcCashPayloads :
          tradeRead(1, u, payload)
    \/ tradeWrite(1)
    \/ tradeReply(1)
    \/ \E amount \in ConcCashChanges :
          updateStudentCash([userId |-> "t1", role |-> "teacher"], "s1", amount)
    \/ \E amount \in ConcCashChanges :
          updateTeacherCash([userId |-> "t1", role |-> "teacher"], amount)

SpecConcCash == InitConcCash /\ [][NextConcCash]_vars

----------------------------------------------------------------------------
(* Two requests that claim a username in flight: each handler awaits its   *)
(* findOne on the username, then its insertOne or updateOne, and the       *)
(* handlers interleave at every await.                                     *)

ConcNames == {"bob", "teacher2"}
ConcNameOps == {"registerUser", "addStudent", "updateStudentCredentials"}
ConcTeacher == [userId |-> "t1", role |-> "teacher"]

NameRequest(op, username) ==
    [op |-> op, username |-> username, password |-> TeacherPassword,
     studentId |-> "s1"]

\* await collection.findOne({username: {$regex: /^username$/i}}), which for
\* updateStudentCredentials lets the student's own document pass
nameCheck(p, op, username) ==
    /\ procs[p].pc = "idle"
    /\ LET existing == findOneByUsername(users, username)
           taken == IF op = "updateStudentCredentials"
                    THEN existing # NoId /\ existing # "s1"
                    ELSE existing # NoId
       IN procs' = [procs EXCEPT ![p] =
                       [pc |-> IF taken THEN "done" ELSE "checked",
                        userId |-> IF op = "registerUser" THEN NoId
                                   ELSE ConcTeacher.userId,
                        payload |-> NameRequest(op, username),
                        user |-> NoUser,
                        result |-> IF ~taken THEN ""
                                   ELSE IF op = "updateStudentCredentials"
                                   THEN ErrUsernameTaken ELSE ErrUsernameExists]]
    /\ UNCHANGED <<users, now, ntrades, last>>

\* await collection.insertOne(...), or await collection.updateOne(...) under
\* the roster filter
nameWrite(p) ==
    /\ procs[p].pc = "checked"
    /\ LET r == procs[p].payload
       IN IF r.op = "registerUser"
          THEN \E id \in newIds(users, "teacher") :
                  /\ users' = [users EXCEPT ![id] =
                                  [registeredTeacher(r.username) EXCEPT
                                      !.hashedPassword = hash(r.password)]]
                  /\ procs' = [procs EXCEPT ![p].pc = "done", ![p].result = "ok"]
          ELSE IF r.op = "addStudent"
          THEN \E id \in newIds(users, "student") :
                  /\ users' = [users EXCEPT ![id] =
                                  [studentDoc(r.username, 0, procs[p].userId)
                                      EXCEPT !.hashedPassword = hash(r.password)]]
                  /\ procs' = [procs EXCEPT ![p].pc = "done", ![p].result = "ok"]
          ELSE IF inRoster(users, r.studentId, procs[p].userId)
          THEN /\ users' = [users EXCEPT
                              ![r.studentId].username = r.username,
                              ![r.studentId].hashedPassword = hash(r.password)]
               /\ procs' = [procs EXCEPT ![p].pc = "done", ![p].result = "ok"]
          ELSE /\ users' = users
               /\ procs' = [procs EXCEPT ![p].pc = "done",
                                         ![p].result = ErrNotInRoster]
    /\ UNCHANGED <<now, ntrades, last>>

InitConcNames == InitWith({1000})

NextConcNames ==
    \/ \E p \in Procs, op \in ConcNameOps, n \in ConcNames : nameCheck(p, op, n)
    \/ \E p \in Procs : nameWrite(p)

SpecConcNames == InitConcNames /\ [][NextConcNames]_vars

----------------------------------------------------------------------------
(* An executeTrade and a checkAndAwardAchievements request, or two of      *)
(* either, in flight on the same account. checkAndAwardAchievements awaits *)
(* its findOne, then its fetches, then its updateOne.                      *)

ConcAwardPayloads ==
    [type : {"buy", "sell"}, symbol : {"AAPL"}, quantity : {10}, price : Prices]

\* the collection after the student's first buy, 10 AAPL @ 150, which
\* leaves a value of 125000 at cost
InitConcAward ==
    /\ users = setPortfolio(
                  [u \in UserIds |->
                     IF u = "t1" THEN teacherDoc
                     ELSE IF u = "s1" THEN studentDoc("alice", 125000, "t1")
                     ELSE NoUser],
                  "s1", tradeUpdate(studentDoc("alice", 125000, "t1"), FirstBuy, 0))
    /\ now = 0
    /\ ntrades = 1
    /\ last = NoRequest
    /\ procs = [p \in Procs |-> IdleProc]

\* const user = await db.collection('users').findOne({_id})
awardRead(p, u) ==
    /\ procs[p].pc = "idle"
    /\ procs' = [procs EXCEPT ![p] =
                    IF users[u] = NoUser
                    THEN [pc |-> "done", userId |-> u, payload |-> NoPayload,
                          user |-> NoUser, result |-> "ok"]
                    ELSE [pc |-> "evaluating", userId |-> u, payload |-> NoPayload,
                          user |-> users[u], result |-> ""]]
    /\ UNCHANGED <<users, now, ntrades, last>>

\* the rules over the document read, across await getQuotes and await
\* getStockIndustries; the badges are pushed onto the array of the document
awardFetch(p) ==
    /\ procs[p].pc = "evaluating"
    /\ LET user == procs[p].user
       IN \E quotes \in (IF Len(user.stocks) > 0
                          THEN getQuotes(symbolsOf(user.stocks))
                          ELSE {EmptyQuotes}) :
          \E industries \in (IF quotes.ok /\ asksIndustries(user, now, quotes)
                              THEN getStockIndustries(symbolsOf(user.stocks))
                              ELSE {NoIndustries}) :
             procs' = [procs EXCEPT ![p] =
                         IF quotes.ok /\ industries.ok
                         THEN [@ EXCEPT !.pc = "evaluated",
                                        !.user.achievements =
                                            awarded(user, now, quotes, industries)]
                         ELSE [@ EXCEPT !.pc = "done", !.result = ErrFetchFailed]]
    /\ UNCHANGED <<users, now, ntrades, last>>

\* await updateOne({_id: user._id}, {$set: {achievements}})
awardWrite(p) ==
    /\ procs[p].pc = "evaluated"
    /\ users' = setAchievements(users, procs[p].userId, procs[p].user.achievements)
    /\ procs' = [procs EXCEPT ![p].pc = "done", ![p].result = "ok"]
    /\ UNCHANGED <<now, ntrades, last>>

NextConcAward ==
    \/ \E p \in Procs, payload \in ConcAwardPayloads : tradeRead(p, "s1", payload)
    \/ \E p \in Procs : tradeWrite(p)
    \/ \E p \in Procs : tradeReply(p)
    \/ \E p \in Procs : awardRead(p, "s1")
    \/ \E p \in Procs : awardFetch(p)
    \/ \E p \in Procs : awardWrite(p)

SpecConcAward == InitConcAward /\ [][NextConcAward]_vars

----------------------------------------------------------------------------
(* Properties of the ledger, checked under Spec *)

Account(u) == users[u]

\* the last request was an executeTrade on an existing account
Traded == last.op = "executeTrade" /\ last.before # NoUser
TradedOk == Traded /\ last.result = "ok"
OrderCost == last.payload.quantity * last.payload.price

\* the holdings of a symbol in a stocks list
Holdings(stocks, symbol) ==
    {i \in DOMAIN stocks : stocks[i].symbol = symbol}

\* C1: over any sequence of buy/sell orders with quantity > 0 and price > 0
\* applied one after another, the stored cash of every account is >= 0
\* after every step, whether the step succeeded or failed.
C1_CashNeverNegative ==
    \A u \in UserIds : Account(u) # NoUser => Account(u).cash >= 0

\* a buy has spent the whole cash of the account
C1_Witness ==
    /\ TradedOk /\ last.payload.type = "buy"
    /\ last.before.cash > 0
    /\ Account(last.userId).cash = 0

\* C2: over any sequence of orders with quantity > 0 and price > 0, every
\* holding of the stored stocks list has shares > 0 after every step.
C2_SharesAlwaysPositive ==
    \A u \in UserIds : Account(u) # NoUser =>
        \A i \in DOMAIN Account(u).stocks : Account(u).stocks[i].shares > 0

\* a sell of the whole position has been written, beside another holding
C2_Witness ==
    /\ TradedOk /\ last.payload.type = "sell"
    /\ \E i \in DOMAIN last.before.stocks :
          /\ last.before.stocks[i].symbol = last.payload.symbol
          /\ last.before.stocks[i].shares = last.payload.quantity
    /\ Len(Account(last.userId).stocks) = 1

\* C4: a buy fails with 'Not enough cash.' exactly when quantity x price
\* exceeds the cash of the account (a cost equal to the cash succeeds), and
\* a failed buy leaves the stored account unchanged.
C4_BuyFailsIffCostExceedsCash ==
    (Traded /\ last.payload.type = "buy") =>
        /\ (last.result = ErrNotEnoughCash) <=> (OrderCost > last.before.cash)
        /\ (last.result = "ok") <=> (OrderCost <= last.before.cash)
        /\ last.result # "ok" => Account(last.userId) = last.before

\* a buy was refused for lack of cash by an account that holds cash and stocks
C4_Witness ==
    /\ Traded /\ last.payload.type = "buy"
    /\ last.result = ErrNotEnoughCash
    /\ last.before.cash > 0
    /\ last.before.stocks # <<>>

\* a buy whose cost equals the cash went through
C4_BoundaryReached ==
    TradedOk /\ last.payload.type = "buy" /\ OrderCost = last.before.cash

\* C5: a sell fails with 'Not enough shares to sell.' when the account has
\* no holding of the symbol or holds fewer shares than the order quantity,
\* and the failed sell leaves cash, holdings and achievements unchanged.
C5_SellFailsWithoutShares ==
    (Traded /\ last.payload.type = "sell"
        /\ \A i \in Holdings(last.before.stocks, last.payload.symbol) :
               last.before.stocks[i].shares < last.payload.quantity) =>
        /\ last.result = ErrNotEnoughShares
        /\ Account(last.userId) = last.before

\* a sell of more shares than held was refused (the symbol is held)
C5_Witness ==
    /\ Traded /\ last.payload.type = "sell"
    /\ last.result = ErrNotEnoughShares
    /\ Holdings(last.before.stocks, last.payload.symbol) # {}
    /\ Account(last.userId) = last.before

\* C6: an order whose type is neither 'buy' nor 'sell' fails with
\* 'Invalid trade type.' and leaves the stored account unchanged.
C6_UnknownTypeRejected ==
    (Traded /\ last.payload.type \notin {"buy", "sell"}) =>
        /\ last.result = ErrInvalidType
        /\ Account(last.userId) = last.before

\* an order of an unknown type was refused on an account that could have
\* filled it as a sell
C6_Witness ==
    /\ Traded /\ last.payload.type \notin {"buy", "sell"}
    /\ last.result = ErrInvalidType
    /\ \E i \in Holdings(last.before.stocks, last.payload.symbol) :
          last.before.stocks[i].shares >= last.payload.quantity

\* C7: a successful buy of q at p lowers the cash by exactly q x p; a symbol
\* already held (oldShares, oldAvg) becomes oldShares + q shares at
\* (oldShares x oldAvg + q x p) / (oldShares + q); a symbol not held becomes
\* a new holding (symbol, q, p, now). From cash 100000, 10@150 then 5@180
\* gives 15 shares at 160 and cash 97600.
C7_BuyEffect ==
    (TradedOk /\ last.payload.type = "buy") =>
        LET q == last.payload.quantity
            pr == last.payload.price
            old == Holdings(last.before.stocks, last.payload.symbol)
            new == Holdings(Account(last.userId).stocks, last.payload.symbol)
        IN /\ Account(last.userId).cash = last.before.cash - q * pr
           /\ Cardinality(new) = 1
           /\ \A j \in new :
                LET h == Account(last.userId).stocks[j]
                IN /\ \A i \in old :
                        LET o == last.before.stocks[i]
                        IN /\ h.shares = o.shares + q
                           /\ h.purchasePrice.n * o.purchasePrice.d * (o.shares + q)
                                = (o.shares * o.purchasePrice.n
                                     + q * pr * o.purchasePrice.d) * h.purchasePrice.d
                   /\ old = {} =>
                        /\ h.shares = q
                        /\ h.purchasePrice = [n |-> pr, d |-> 1]
                        /\ h.purchaseDate = last.at
           /\ (/\ last.before.cash = 98500
               /\ last.before.stocks =
                     <<[symbol |-> "AAPL", shares |-> 10,
                        purchasePrice |-> [n |-> 150, d |-> 1], purchaseDate |-> 0]>>
               /\ last.payload.symbol = "AAPL" /\ q = 5 /\ pr = 180)
              => /\ Account(last.userId).cash = 97600
                 /\ Account(last.userId).stocks =
                      <<[symbol |-> "AAPL", shares |-> 15,
                         purchasePrice |-> [n |-> 160, d |-> 1], purchaseDate |-> 0]>>

\* the second buy of the example: 5 AAPL @ 180 on top of 10 AAPL @ 150
C7_Witness ==
    /\ TradedOk /\ last.payload.type = "buy"
    /\ last.payload.symbol = "AAPL"
    /\ last.payload.quantity = 5 /\ last.payload.price = 180
    /\ last.before.cash = 98500
    /\ Len(last.before.stocks) = 1
    /\ last.before.stocks[1].shares = 10
    /\ last.before.stocks[1].purchasePrice = [n |-> 150, d |-> 1]
    /\ Account(last.userId).cash = 97600

\* C8: a successful sell of q at p raises the cash by exactly q x p and
\* lowers the holding by q shares; at 0 shares the holding leaves the list,
\* and a later buy of the symbol creates a fresh holding at the buy price
\* with the time of that buy as its acquisition time.
C8_SellEffect ==
    /\ (TradedOk /\ last.payload.type = "sell") =>
          LET q == last.payload.quantity
              old == Holdings(last.before.stocks, last.payload.symbol)
              new == Holdings(Account(last.userId).stocks, last.payload.symbol)
          IN /\ Account(last.userId).cash =
                    last.before.cash + q * last.payload.price
             /\ \A i \in old :
                  IF last.before.stocks[i].shares = q
                  THEN new = {}
                  ELSE /\ Cardinality(new) = 1
                       /\ \A j \in new :
                            Account(last.userId).stocks[j].shares
                               = last.before.stocks[i].shares - q
             /\ \A s \in Symbols \ {last.payload.symbol} :
                  \A j \in Holdings(Account(last.userId).stocks, s) :
                     \E i \in Holdings(last.before.stocks, s) :
                        Account(last.userId).stocks[j] = last.before.stocks[i]
    /\ (TradedOk /\ last.payload.type = "buy"
          /\ Holdings(last.before.stocks, last.payload.symbol) = {}) =>
          \A j \in Holdings(Account(last.userId).stocks, last.payload.symbol) :
             /\ Account(last.userId).stocks[j].purchasePrice
                   = [n |-> last.payload.price, d |-> 1]
             /\ Account(last.userId).stocks[j].purchaseDate = last.at

\* a symbol is bought again, at a later time and another price, by an
\* account whose every position has been closed
C8_Witness ==
    /\ TradedOk /\ last.payload.type = "buy"
    /\ last.before.stocks = <<>>
    /\ includes(last.before.achievements, "PROFIT_MAKER")
    /\ last.at = 1
    /\ last.payload.price = 180
    /\ Len(Account(last.userId).stocks) = 1
    /\ Account(last.userId).stocks[1].purchaseDate = 1
    /\ Account(last.userId).stocks[1].purchasePrice = [n |-> 180, d |-> 1]

----------------------------------------------------------------------------
(* Properties of concurrent trades, checked under SpecConc *)

\* the document after one order applied to it by a handler running alone
appliedAlone(doc, payload) ==
    LET o == tradeUpdate(doc, payload, 0)
    IN IF o.error # "" THEN doc
       ELSE [doc EXCEPT !.cash = o.cash, !.stocks = o.stocks,
                        !.achievements = o.achievements]

\* the student's document in the initial state the run started from
startDoc(c) == appliedAlone(studentDoc("alice", c, "t1"), FirstBuy)

\* C3: two executeTrade requests that run concurrently on one account never
\* overwrite each other's update: when both succeed, the final cash and
\* holdings are those of applying the two orders in some serial order.
C3_ConcurrentTradesSerializable ==
    (\A p \in Procs : procs[p].pc = "done" /\ procs[p].result = "ok") =>
        \E c \in ConcStartingCash : \E first, second \in Procs :
            /\ first # second
            /\ LET serial == appliedAlone(appliedAlone(startDoc(c), procs[first].payload),
                                          procs[second].payload)
               IN /\ Account("s1").cash = serial.cash
                  /\ Account("s1").stocks = serial.stocks

\* both requests have run to completion, one strictly after the other
C3_BothDone ==
    \A p \in Procs : procs[p].pc = "done" /\ procs[p].result = "ok"

----------------------------------------------------------------------------
(* Properties of the valuation, checked under SpecValue *)

Queried(op) == last.op = op /\ last.result = "ok"

\* shares x price of the holdings i..Len(stocks), as the claim words it:
\* the quoted price when the snapshot contains the symbol, else averageCost
RECURSIVE holdingsWorth(_, _, _)
holdingsWorth(stocks, c, i) ==
    IF i > Len(stocks) THEN [n |-> 0, d |-> 1]
    ELSE LET h == stocks[i]
             rest == holdingsWorth(stocks, c, i + 1)
             worth == IF c[h.symbol] = NoQuote
                      THEN [n |-> h.shares * h.purchasePrice.n, d |-> h.purchasePrice.d]
                      ELSE [n |-> h.shares * c[h.symbol], d |-> 1]
         IN [n |-> worth.n * rest.d + rest.n * worth.d, d |-> worth.d * rest.d]

\* value = cash + worth of the holdings
IsTotalValue(value, doc, c) ==
    LET w == holdingsWorth(doc.stocks, c, 1)
    IN value.n * w.d = (doc.cash * w.d + w.n) * value.d

\* C9: the total value computed for an account by getLeaderboards and by
\* checkAndAwardAchievements is cash + the sum over its holdings of
\* shares x (the quoted price when the snapshot has the symbol, else the
\* holding's averageCost); with no quote, cash 1000 and 10 shares at 150
\* it is 2500.
C9_TotalValue ==
    /\ Queried("getLeaderboards") =>
          \A k \in DOMAIN last.out.global :
             /\ IsTotalValue(last.out.global[k].totalValue,
                             Account(last.out.global[k].id), last.quotes.c)
             /\ (/\ Account(last.out.global[k].id).cash = 1000
                 /\ Len(Account(last.out.global[k].id).stocks) = 1
                 /\ Account(last.out.global[k].id).stocks[1].shares = 10
                 /\ Account(last.out.global[k].id).stocks[1].purchasePrice
                       = [n |-> 150, d |-> 1]
                 /\ last.quotes = EmptyQuotes)
                => last.out.global[k].totalValue = [n |-> 2500, d |-> 1]
    /\ (Queried("checkAndAwardAchievements") /\ last.before # NoUser) =>
          /\ IsTotalValue(last.out.totalValue, last.before, last.quotes.c)
          /\ (/\ last.before.cash = 1000
              /\ Len(last.before.stocks) = 1
              /\ last.before.stocks[1].shares = 10
              /\ last.before.stocks[1].purchasePrice = [n |-> 150, d |-> 1]
              /\ last.quotes = EmptyQuotes)
             => last.out.totalValue = [n |-> 2500, d |-> 1]

\* a leaderboard over an account with one holding quoted (at 200, bought at
\* 150) and another valued at its averageCost
C9_Witness ==
    /\ Queried("getLeaderboards")
    /\ \E i, j \in DOMAIN Account("s1").stocks :
          /\ last.quotes.c[Account("s1").stocks[i].symbol] = 200
          /\ last.quotes.c[Account("s1").stocks[j].symbol] = NoQuote
    /\ \E k \in DOMAIN last.out.global : last.out.global[k].id = "s1"

\* the example: no quote, cash 1000, 10 shares at 150
C9_ExampleReached ==
    /\ Queried("checkAndAwardAchievements")
    /\ last.quotes = EmptyQuotes
    /\ last.before # NoUser
    /\ last.before.cash = 1000
    /\ Len(last.before.stocks) = 1
    /\ last.out.totalValue = [n |-> 2500, d |-> 1]

\* C10: a failure of the quote fetch or of the industry fetch never makes a
\* getLeaderboards or checkAndAwardAchievements request fail: the request
\* still completes with a result.
C10_FetchFailureIsRecovered ==
    (last.op \in {"getLeaderboards", "checkAndAwardAchievements"}
        /\ (~last.quotes.ok \/ ~last.industries.ok))
    => last.result = "ok"

\* the industry fetch is what failed
C10_IndustryFetchFailed ==
    /\ last.op = "checkAndAwardAchievements"
    /\ last.quotes.ok /\ ~last.industries.ok
    /\ last.result = ErrFetchFailed

----------------------------------------------------------------------------
(* Properties of the badges a trade awards, checked under Spec *)

Badges(doc) == {doc.achievements[i] : i \in DOMAIN doc.achievements}

\* C14: FIRST_TRADE is in the achievement set after the first executeTrade
\* successfully applied to the account (buy or sell), and no executeTrade
\* that fails adds it.
C14_FirstTradeAwarded ==
    /\ TradedOk => "FIRST_TRADE" \in Badges(Account(last.userId))
    /\ (Traded /\ last.result # "ok") =>
          Account(last.userId).achievements = last.before.achievements
    /\ ntrades = 0 =>
          \A u \in UserIds :
             Account(u) # NoUser => "FIRST_TRADE" \notin Badges(Account(u))

\* the first trade applied to the account has just been written
C14_Witness ==
    /\ TradedOk /\ ntrades = 1
    /\ last.before.achievements = <<>>
    /\ Account(last.userId).achievements = <<"FIRST_TRADE">>

\* an order has failed on an account that has not traded yet
C14_FailedReached ==
    /\ Traded /\ last.result = ErrNotEnoughCash
    /\ ntrades = 0
    /\ Account(last.userId).achievements = <<>>

\* the sell price strictly exceeds the averageCost of the holding sold
SoldAtProfit ==
    \E i \in Holdings(last.before.stocks, last.payload.symbol) :
       last.payload.price * last.before.stocks[i].purchasePrice.d
          > last.before.stocks[i].purchasePrice.n

\* C15: executeTrade adds PROFIT_MAKER when a successful sell's price
\* strictly exceeds the holding's averageCost as it was before the sale; a
\* sell at a price equal to or below the averageCost, and any buy, adds no
\* PROFIT_MAKER.
C15_ProfitMakerAwarded ==
    /\ (TradedOk /\ last.payload.type = "sell") =>
          IF SoldAtProfit
          THEN "PROFIT_MAKER" \in Badges(Account(last.userId))
          ELSE Badges(Account(last.userId)) \ {"FIRST_TRADE"}
                  = Badges(last.before) \ {"FIRST_TRADE"}
    /\ (TradedOk /\ last.payload.type = "buy") =>
          ("PROFIT_MAKER" \in Badges(Account(last.userId)))
             <=> ("PROFIT_MAKER" \in Badges(last.before))

\* a sell above an averaged cost (not a whole number of the prices offered)
\* has awarded the badge
C15_Witness ==
    /\ TradedOk /\ last.payload.type = "sell"
    /\ SoldAtProfit
    /\ \E i \in Holdings(last.before.stocks, last.payload.symbol) :
          last.before.stocks[i].purchasePrice \notin {[n |-> 150, d |-> 1], [n |-> 180, d |-> 1]}
    /\ "PROFIT_MAKER" \notin Badges(last.before)
    /\ "PROFIT_MAKER" \in Badges(Account(last.userId))

\* a sell at exactly the averageCost has awarded nothing
C15_EqualPriceReached ==
    /\ TradedOk /\ last.payload.type = "sell"
    /\ \E i \in Holdings(last.before.stocks, last.payload.symbol) :
          last.before.stocks[i].purchasePrice = [n |-> last.payload.price, d |-> 1]
    /\ "PROFIT_MAKER" \notin Badges(Account(last.userId))

----------------------------------------------------------------------------
(* Properties of the badge list across requests, checked under             *)
(* SpecRequests                                                            *)

\* C11: over every sequence of requests applied one after another to an
\* account (executeTrade, checkAndAwardAchievements, updateStudentCash,
\* updateStudentCredentials, getPortfolio, getLeaderboards) the stored
\* achievement set after each request is a superset of the set before it.
C11_AchievementsOnlyGrow ==
    [][\A u \in UserIds :
          (users[u] # NoUser /\ users'[u] # NoUser) =>
             Badges(users[u]) \subseteq Badges(users'[u])]_vars

\* checkAndAwardAchievements has added a badge to a list that held two
C11_Witness ==
    /\ Queried("checkAndAwardAchievements")
    /\ last.before # NoUser
    /\ {"FIRST_TRADE", "PROFIT_MAKER"} \subseteq Badges(last.before)
    /\ "MARKET_MASTER" \notin Badges(last.before)
    /\ Badges(Account(last.userId)) = Badges(last.before) \cup {"MARKET_MASTER"}

\* the teacher has changed the cash, and the credentials, of a student who
\* holds badges
C11_RosterReached ==
    /\ last.op = "updateStudentCash" /\ last.result = "ok"
    /\ Account(last.target).username = "ALICE"
    /\ Account(last.target).cash = last.before.cash - 1
    /\ Badges(Account(last.target)) = {"FIRST_TRADE", "MARKET_MASTER"}

----------------------------------------------------------------------------
(* Properties of checkAndAwardAchievements, checked under SpecAward and    *)
(* SpecPatient                                                             *)

\* the last request was a checkAndAwardAchievements that ran to its end on
\* an existing account
Evaluated == Queried("checkAndAwardAchievements") /\ last.before # NoUser

NoDuplicates(seq) == \A i, j \in DOMAIN seq : seq[i] = seq[j] => i = j

\* C13: checkAndAwardAchievements invoked twice in a row on the same account
\* with the same quotes, industries and clock returns the same achievement
\* set both times, the second invocation leaves the stored set unchanged,
\* and no badge appears twice in the stored list.
C13_AwardIdempotent ==
    /\ Evaluated =>
          LET again == awarded(Account(last.userId), last.at, last.quotes,
                               last.industries)
          IN /\ again = last.out.newAchievements
             /\ setAchievements(users, last.userId, again) = users
    /\ \A u \in UserIds :
          Account(u) # NoUser => NoDuplicates(Account(u).achievements)

\* an evaluation of an account that already holds the two badges of the
\* value and industry rules has returned the list as it was
C13_Witness ==
    /\ Evaluated
    /\ {"MARKET_MASTER", "DIVERSIFIED_INVESTOR"} \subseteq Badges(last.before)
    /\ last.out.newAchievements = last.before.achievements
    /\ Account(last.userId).achievements = last.before.achievements

C16_ThirtyDaysReached ==
    /\ Evaluated
    /\ \E i \in DOMAIN last.before.stocks :
          last.at - last.before.stocks[i].purchaseDate = 2592000
    /\ "PATIENT_INVESTOR" \notin Badges(Account(last.userId))

\* a symbol bought, sold whole and bought again more than thirty days later
\* has not earned it
C16_RebuyReached ==
    /\ Evaluated
    /\ last.at = 2592001
    /\ Len(last.before.stocks) = 1
    /\ last.before.stocks[1].purchaseDate = 2592001
    /\ "PROFIT_MAKER" \notin Badges(last.before)
    /\ last.before.cash = DefaultStartingCash - 1500
    /\ ntrades = 3
    /\ "PATIENT_INVESTOR" \notin Badges(Account(last.userId))

\* C17: checkAndAwardAchievements adds MARKET_MASTER exactly when the total
\* value of the account (cash plus holdings at the quote, or at averageCost
\* when the quote is absent) is >= 125000 at evaluation time: 125000 awards
\* it, 124999 does not.
C17_MarketMasterAwarded ==
    Evaluated =>
       LET w == holdingsWorth(last.before.stocks, last.quotes.c, 1)
       IN IF last.before.cash * w.d + w.n >= 125000 * w.d
          THEN "MARKET_MASTER" \in Badges(Account(last.userId))
          ELSE ("MARKET_MASTER" \in Badges(Account(last.userId)))
                  <=> ("MARKET_MASTER" \in Badges(last.before))

\* a total value of exactly 125000, part cash and part holdings at their
\* averageCost, has earned the badge
C17_Witness ==
    /\ Evaluated
    /\ Len(last.before.stocks) = 2
    /\ last.before.cash = 122000
    /\ \A i \in DOMAIN last.before.stocks :
          last.quotes.c[last.before.stocks[i].symbol] = NoQuote
    /\ IsTotalValue([n |-> 125000, d |-> 1], last.before, last.quotes.c)
    /\ "MARKET_MASTER" \notin Badges(last.before)
    /\ "MARKET_MASTER" \in Badges(Account(last.userId))

\* a quote above the averageCost has lifted a value of 124999 at cost over
\* the threshold
C17_QuoteLiftReached ==
    /\ Evaluated
    /\ IsTotalValue([n |-> 124999, d |-> 1], last.before, EmptyQuotes.c)
    /\ \E i \in DOMAIN last.before.stocks :
          last.quotes.c[last.before.stocks[i].symbol] = 200
    /\ "MARKET_MASTER" \notin Badges(last.before)
    /\ "MARKET_MASTER" \in Badges(Account(last.userId))

\* a total value of exactly 124999 has not earned it
C17_BelowReached ==
    /\ Evaluated
    /\ last.before.stocks # <<>>
    /\ IsTotalValue([n |-> 124999, d |-> 1], last.before, last.quotes.c)
    /\ "MARKET_MASTER" \notin Badges(Account(last.userId))

\* the industries of the symbols held as the claim resolves them: a symbol
\* whose lookup returned nothing is in the 'Other' bucket
resolvedIndustries(stocks, industries) ==
    {IF industries.industry[s] = NoProfile THEN "Other"
     ELSE industries.industry[s] : s \in symbolsOf(stocks)}

\* C18: checkAndAwardAchievements adds DIVERSIFIED_INVESTOR when the account
\* holds at least 3 distinct symbols whose resolved industries number at
\* least 3 distinct values, a symbol whose industry lookup fails or returns
\* nothing counting in the 'Other' bucket; it is not added with fewer than
\* 3 symbols or fewer than 3 distinct industries.
C18_DiversifiedAwarded ==
    (Evaluated /\ "DIVERSIFIED_INVESTOR" \notin Badges(last.before)) =>
       (("DIVERSIFIED_INVESTOR" \in Badges(Account(last.userId)))
          <=> (/\ Cardinality(symbolsOf(last.before.stocks)) >= 3
               /\ Cardinality(resolvedIndustries(last.before.stocks,
                                                 last.industries)) >= 3))

\* three symbols held, two industries named and one lookup that returned
\* nothing: no badge
C18_EmptyProfileReached ==
    /\ Evaluated
    /\ Len(last.before.stocks) = 3
    /\ \E s \in symbolsOf(last.before.stocks) :
          last.industries.industry[s] = NoProfile
    /\ Cardinality(industrySet(last.industries)) = 2
    /\ "DIVERSIFIED_INVESTOR" \notin Badges(Account(last.userId))

\* three symbols held, one of them with a profile that names no industry:
\* 'Other' is the third industry and the badge is awarded
C18_OtherBucketReached ==
    /\ Evaluated
    /\ Len(last.before.stocks) = 3
    /\ "Other" \in industrySet(last.industries)
    /\ "DIVERSIFIED_INVESTOR" \notin Badges(last.before)
    /\ "DIVERSIFIED_INVESTOR" \in Badges(Account(last.userId))

----------------------------------------------------------------------------
(* Properties of the badge list under concurrent requests, checked under   *)
(* SpecConcAward                                                           *)

\* C12: under any interleaving of concurrent requests on the same account
\* (checkAndAwardAchievements with executeTrade, or two executeTrade), a
\* badge that has been stored for the account is never missing from the
\* stored achievement set in any later state.
C12_BadgesSurviveInterleaving ==
    [][\A u \in UserIds :
          users[u] # NoUser =>
             \A b \in Badges(users[u]) :
                users'[u] # NoUser /\ includes(users'[u].achievements, b)]_vars

\* an evaluation and a trade have both run to their end, and the trade
\* wrote last, from a document it read before the evaluation wrote
C12_BadgeLost ==
    /\ \A p \in Procs : procs[p].pc = "done" /\ procs[p].result = "ok"
    /\ \E p \in Procs : "MARKET_MASTER" \in Badges(procs[p].user)
    /\ "MARKET_MASTER" \notin Badges(Account("s1"))

----------------------------------------------------------------------------
(* Properties of the leaderboard, checked under SpecBoard *)

Ranked == Queried("getLeaderboards")

\* positions i < j never hold a smaller totalValue before a larger one
Descending(board) ==
    \A i, j \in DOMAIN board :
       i < j => board[i].totalValue.n * board[j].totalValue.d
                   >= board[j].totalValue.n * board[i].totalValue.d

\* C19: the global leaderboard returned by getLeaderboards contains every
\* account exactly once, and the global and the class lists are both
\* ordered by descending totalValue.
C19_LeaderboardSorted ==
    Ranked =>
       /\ \A u \in UserIds :
             Cardinality({k \in DOMAIN last.out.global : last.out.global[k].id = u})
                = IF Account(u) # NoUser THEN 1 ELSE 0
       /\ Descending(last.out.global)
       /\ Descending(last.out.class)

\* three accounts of three different values, the one stored last on top
C19_Witness ==
    /\ Ranked
    /\ Len(last.out.global) = 3
    /\ Len(last.out.class) = 3
    /\ last.out.global[1].id = "s2"
    /\ last.out.global[3].id = "t1"
    /\ RatLess(last.out.global[2].totalValue, last.out.global[1].totalValue)
    /\ RatLess(last.out.global[3].totalValue, last.out.global[2].totalValue)

\* C20: two invocations of getLeaderboards by the same actor over an
\* unchanged account population and the same quote snapshot return
\* identical orderings, including the relative order of accounts whose
\* totalValue is equal.
C20_LeaderboardDeterministic ==
    Ranked =>
       \A ids \in find(users) :
          LET ranked == rankedUsers(users, ids, last.quotes)
          IN /\ ranked = last.out.global
             /\ classLeaderboard(users, ranked,
                                 [userId |-> last.userId,
                                  role |-> IF last.userId = "t1" THEN "teacher"
                                           ELSE "student"])
                   = last.out.class

\* two students of equal totalValue, ranked with the second one first
C20_TieReached ==
    /\ Ranked
    /\ \E i, j \in DOMAIN last.out.global :
          /\ i < j
          /\ last.out.global[i].id = "s2" /\ last.out.global[j].id = "s1"
          /\ last.out.global[i].totalValue = last.out.global[j].totalValue

----------------------------------------------------------------------------
(* Properties of the class leaderboard, checked under SpecClass *)

\* the role in the token of the actor of the last request
roleOf(id) == (CHOOSE a \in ClassActors : a.userId = id).role

\* the ids listed on a board
Listed(board) == {board[k].id : k \in DOMAIN board}

\* the accounts whose teacher reference is t
StudentsOf(t) == {u \in UserIds : Account(u) # NoUser /\ Account(u).teacherId = t}

\* C21: when the actor of getLeaderboards is a teacher, the class
\* leaderboard contains exactly the teacher's own account and every student
\* whose teacher reference equals that teacher, and no other account.
C21_TeacherClass ==
    (Ranked /\ roleOf(last.userId) = "teacher") =>
       /\ Listed(last.out.class) = {last.userId} \cup StudentsOf(last.userId)
       /\ Len(last.out.class) = Cardinality(Listed(last.out.class))

\* a teacher's class of three out of four accounts, the other teacher left
\* out
C21_Witness ==
    /\ Ranked /\ last.userId = "t1"
    /\ Len(last.out.global) = 4
    /\ Listed(last.out.class) = {"t1", "s1", "s2"}

\* a teacher with no student: the class list holds the teacher alone
C21_AloneReached ==
    /\ Ranked /\ last.userId = "t2"
    /\ Listed(last.out.class) = {"t2"}

\* C22: when the actor of getLeaderboards is a student with a teacher
\* reference, the class leaderboard contains exactly that teacher's account
\* and every student whose teacher reference equals that teacher (the
\* requesting student included); when the student has no teacher reference
\* it contains exactly the student's own account.
C22_StudentClass ==
    (Ranked /\ roleOf(last.userId) = "student" /\ Account(last.userId) # NoUser) =>
       /\ Listed(last.out.class) =
             IF Account(last.userId).teacherId # NoId
             THEN {Account(last.userId).teacherId}
                     \cup StudentsOf(Account(last.userId).teacherId)
             ELSE {last.userId}
       /\ Len(last.out.class) = Cardinality(Listed(last.out.class))

\* a student sees their teacher and their classmate, and not the other
\* teacher
C22_Witness ==
    /\ Ranked /\ last.userId = "s2"
    /\ Account("s2").teacherId = "t1"
    /\ Listed(last.out.class) = {"t1", "s1", "s2"}
    /\ Len(last.out.global) = 4

\* a student with no teacher reference sees only themself
C22_NoTeacherReached ==
    /\ Ranked /\ last.userId = "s2"
    /\ Account("s2").teacherId = NoId
    /\ Listed(last.out.class) = {"s2"}

----------------------------------------------------------------------------
(* C23, C25 under SpecRoster; C24 under SpecCash *)

RosterOps == {"removeStudent", "updateStudentCash", "updateStudentCredentials"}

\* the request names a stored account whose teacher reference is the actor
OwnStudent(r) ==
    /\ r.role = "teacher"
    /\ r.before # NoUser
    /\ r.before.teacherId = r.userId

\* C23: removeStudent, updateStudentCash and updateStudentCredentials
\* change an account only when the actor's role is teacher and the target's
\* teacher reference equals the actor's id; in every other case the request
\* fails with an error and every account is left as it was.
C23_OnlyOwnStudents ==
    [][last'.op \in RosterOps =>
          /\ users' # users => OwnStudent(last') /\ last'.result = "ok"
          /\ ~OwnStudent(last') => last'.result # "ok" /\ users' = users]_vars

\* a teacher has removed their own student
C23_Witness ==
    /\ last.op = "removeStudent" /\ last.result = "ok"
    /\ OwnStudent(last)
    /\ Account(last.target) = NoUser

\* a teacher was refused on the student of another teacher
C23_OtherTeacherRefused ==
    /\ last.op \in RosterOps /\ last.role = "teacher"
    /\ last.before # NoUser /\ last.before.role = "student"
    /\ last.before.teacherId \notin {last.userId, NoId}
    /\ last.result = ErrNotInRoster
    /\ Account(last.target) = last.before

\* a student was refused
C23_StudentRefused ==
    /\ last.op \in RosterOps /\ last.role = "student"
    /\ last.result = ErrAccessDenied
    /\ Account(last.target) = last.before

\* C24: the cash of every stored account is >= 0 in every reachable state,
\* whatever sequence of registerUser, addStudent, executeTrade,
\* updateStudentCash and updateTeacherCash requests was served.
C24_CashNonNegative ==
    \A id \in TeacherIds \cup StudentIds :
        users[id] = NoUser \/ ~(users[id].cash < 0)

\* C25: every stored student whose teacher reference is set names a stored
\* account of role teacher.
C25_TeacherExists ==
    \A u \in UserIds :
        (Account(u) # NoUser /\ Account(u).role = "student"
            /\ Account(u).teacherId # NoId)
        => /\ Account(Account(u).teacherId) # NoUser
           /\ Account(Account(u).teacherId).role = "teacher"

\* the second teacher has registered and added a student
C25_Witness ==
    /\ last.op = "addStudent" /\ last.result = "ok"
    /\ Account(last.target).teacherId = "t2"
    /\ Account("t2").role = "teacher"

\* a student was removed while another student stays on a roster
C25_RemovedReached ==
    /\ last.op = "removeStudent" /\ last.result = "ok"
    /\ \E u \in StudentIds : Account(u) # NoUser /\ Account(u).teacherId # NoId

----------------------------------------------------------------------------
(* C26 under Spec *)

\* the sum over the holdings of shares x averageCost
RECURSIVE costBasis(_)
costBasis(stocks) ==
    IF stocks = <<>> THEN RatInt(0)
    ELSE RatAdd(RatScale(Head(stocks).shares, Head(stocks).purchasePrice),
                costBasis(Tail(stocks)))

\* cash + the cost basis of the holdings
bookValue(doc) == RatAdd(RatInt(doc.cash), costBasis(doc.stocks))

\* the last request sold a part of a holding
PartialSell ==
    /\ TradedOk /\ last.payload.type = "sell"
    /\ \E i \in Holdings(last.before.stocks, last.payload.symbol) :
          last.before.stocks[i].shares > last.payload.quantity

\* C26: a successful buy leaves cash + the sum over the holdings of
\* shares x averageCost where it was, so over any sequence of successful
\* buys the sum stays equal to the cash the sequence started with; and a
\* successful partial sell leaves the averageCost and the acquisition
\* timestamp of the remaining holding unchanged.
C26_CostBasisConsistent ==
    /\ (TradedOk /\ last.payload.type = "buy")
          => bookValue(Account(last.userId)) = bookValue(last.before)
    /\ PartialSell
          => \A i \in Holdings(last.before.stocks, last.payload.symbol) :
                \E j \in Holdings(Account(last.userId).stocks, last.payload.symbol) :
                   /\ Account(last.userId).stocks[j].purchasePrice
                        = last.before.stocks[i].purchasePrice
                   /\ Account(last.userId).stocks[j].purchaseDate
                        = last.before.stocks[i].purchaseDate

\* a buy at another price was added to a holding, after an earlier buy
C26_Witness ==
    /\ TradedOk /\ last.payload.type = "buy"
    /\ \E i \in Holdings(last.before.stocks, last.payload.symbol) :
          last.before.stocks[i].purchasePrice # RatInt(last.payload.price)
    /\ bookValue(Account(last.userId)) = bookValue(last.before)

\* a part of a holding was sold later than it was bought, at another price
C26_PartialSellReached ==
    /\ PartialSell
    /\ \E i \in Holdings(last.before.stocks, last.payload.symbol) :
          /\ last.before.stocks[i].purchaseDate < last.at
          /\ last.before.stocks[i].purchasePrice # RatInt(last.payload.price)

----------------------------------------------------------------------------
(* C27 under SpecOrders *)

\* C27: whatever the quantity and the price of an order, executeTrade
\* either fails and leaves the account as it was, or stores an account
\* whose cash is >= 0 and, after a buy, not above the cash before, and
\* whose holdings all have shares > 0.
C27_AcceptedOrdersKeepInvariants ==
    Traded =>
        IF last.result # "ok" THEN Account(last.userId) = last.before
        ELSE /\ last.payload.type = "buy"
                  => Account(last.userId).cash <= last.before.cash
             /\ Account(last.userId).cash >= 0
             /\ \A i \in DOMAIN Account(last.userId).stocks :
                   Account(last.userId).stocks[i].shares > 0

\* a buy of a negative quantity was accepted and raised the cash
C27_NegativeBuyReached ==
    /\ TradedOk /\ last.payload.type = "buy" /\ last.payload.quantity < 0
    /\ Account(last.userId).cash > last.before.cash

----------------------------------------------------------------------------
(* C28 under SpecConcCash *)

\* one trade has completed on an account that got exactly one adjustment,
\* and no other account was adjusted
TradedAndAdjusted ==
    /\ procs[1].pc = "done" /\ procs[1].result = "ok"
    /\ ntrades = 1
    /\ last.op \in {"updateStudentCash", "updateTeacherCash"}
    /\ last.result = "ok"
    /\ last.target = procs[1].userId

\* the cash of the account after the adjustment and then the order, and after
\* the order and then the adjustment
serialCash(doc, amount, payload) ==
    {tradeUpdate([doc EXCEPT !.cash = @ + amount], payload, 0).cash,
     tradeUpdate(doc, payload, 0).cash + amount}

\* C28: when a successful cash adjustment of amount d and an executeTrade
\* on the same account have both completed, the account's cash is the one
\* that applying the adjustment and the trade in some serial order gives.
C28_AdjustmentNotLost ==
    TradedAndAdjusted =>
        Account(last.target).cash
            \in serialCash([Account(last.target) EXCEPT
                               !.cash = ConcCashStart, !.stocks = <<>>,
                               !.achievements = <<>>],
                          last.payload.amount, procs[1].payload)

\* the adjustment fell between the trade's read and its write, and the cash
\* stored is the one of the trade alone
C28_LostReached ==
    /\ TradedAndAdjusted
    /\ procs[1].user.cash = ConcCashStart
    /\ Account(last.target).cash
         = ConcCashStart - procs[1].payload.quantity * procs[1].payload.price

----------------------------------------------------------------------------
(* C29 under SpecFrame *)

\* the cash and the holdings of every account are left as they were
LedgerUnchanged ==
    \A u \in UserIds :
        users[u] # NoUser =>
            /\ users'[u] # NoUser
            /\ users'[u].cash = users[u].cash
            /\ users'[u].stocks = users[u].stocks

\* every account other than u is left as it was
OthersUnchanged(u) == \A v \in UserIds \ {u} : users'[v] = users[v]

\* C29: getLeaderboards, getPortfolio and checkAndAwardAchievements leave
\* the cash and the holdings of every account unchanged, and
\* checkAndAwardAchievements changes nothing but the achievements of the
\* account it evaluates; an executeTrade leaves every account other than
\* the trader's unchanged.
C29_ReadOnly ==
    [][/\ last'.op \in {"getLeaderboards", "getPortfolio"}
            => LedgerUnchanged /\ users' = users
       /\ last'.op = "checkAndAwardAchievements"
            => /\ LedgerUnchanged
               /\ OthersUnchanged(last'.userId)
               /\ users[last'.userId] # NoUser
                    => users'[last'.userId] =
                          [users[last'.userId] EXCEPT
                              !.achievements = users'[last'.userId].achievements]
       /\ last'.op = "executeTrade" => OthersUnchanged(last'.userId)]_vars

\* an evaluation has awarded a badge to an account that holds stocks, next
\* to another account that holds stocks
C29_Witness ==
    /\ Evaluated
    /\ Account(last.userId).achievements # last.before.achievements
    /\ Account(last.userId).stocks # <<>>
    /\ Account(last.userId).stocks = last.before.stocks
    /\ \E v \in Students \ {last.userId} : Account(v).stocks # <<>>

\* a student has traded while the other student holds stocks
C29_TradeReached ==
    /\ TradedOk
    /\ \E v \in Students \ {last.userId} : Account(v).stocks # <<>>

\* a leaderboard was computed over two accounts that hold stocks
C29_BoardReached ==
    /\ Queried("getLeaderboards")
    /\ \A v \in Students : Account(v).stocks # <<>>

----------------------------------------------------------------------------
(* C30 under SpecConcNames *)

\* C30: in every reachable state no two stored accounts have the same
\* username up to the case of its letters, however the findOne and the
\* insertOne or updateOne of concurrent registerUser, addStudent and
\* updateStudentCredentials requests interleave.
C30_UsernamesUnique ==
    \A u, v \in UserIds :
        (u # v /\ Account(u) # NoUser /\ Account(v) # NoUser)
        => lowerCase[Account(u).username] # lowerCase[Account(v).username]

\* both requests passed the check before either wrote, and both succeeded
\* with the same username
C30_BothAcceptedReached ==
    /\ \A p \in Procs : procs[p].pc = "done" /\ procs[p].result = "ok"
    /\ procs[1].payload.username = procs[2].payload.username
    /\ \E u, v \in UserIds :
          /\ u # v /\ Account(u) # NoUser /\ Account(v) # NoUser
          /\ Account(u).username = Account(v).username

====
